---------------------------- MODULE Spec2Model ----------------------------
(***************************************************************************)
(* A model of the registry build engine of prism-tools,                    *)
(* src/registry/mlb/build_players_registry.py.                             *)
(*                                                                         *)
(* Python values are tagged records [t, s, d, n]:                          *)
(*   t = "none"  None                                                      *)
(*   t = "str"   a string, s its characters                                *)
(*   t = "int"   an integer, n its value                                   *)
(*   t = "dict"  a mapping, d a function from keys (strings) to values     *)
(*   t = "ref"   a reference to the shared mapping n of a heap             *)
(*   t = "raise" the outcome of a call that raised                         *)
(* Strings are sequences of one-character strings, so that splitting on    *)
(* "." and replacing "." by "_" are computed, not assumed.                 *)
(***************************************************************************)
EXTENDS Integers, Sequences, FiniteSets, TLC

VARIABLES resolver, join, fsets, build, outp, pivot, records, pfields

vars == <<resolver, join, fsets, build, outp, pivot, records, pfields>>

---------------------------------------------------------------------------
(* Python values *)

None == [t |-> "none", s |-> <<>>, d |-> <<>>, n |-> 0]

Str(c) == [t |-> "str", s |-> c, d |-> <<>>, n |-> 0]

Num(i) == [t |-> "int", s |-> <<>>, d |-> <<>>, n |-> i]

Dict(f) == [t |-> "dict", s |-> <<>>, d |-> f, n |-> 0]

Ref(i) == [t |-> "ref", s |-> <<>>, d |-> <<>>, n |-> i]

Raised(e) == [t |-> "raise", s |-> e, d |-> <<>>, n |-> 0]

EmptyDict == Dict(<<>>)

\* bool(v) of Python: None, "", 0 and {} are falsy
Truthy(v) ==
    CASE v.t = "none" -> FALSE
      [] v.t = "str" -> v.s # <<>>
      [] v.t = "int" -> v.n # 0
      [] v.t = "dict" -> DOMAIN v.d # {}
      [] OTHER -> TRUE

\* the mapping with the one entry k: v
One(k, v) == [x \in {k} |-> v]

\* the mapping f with f[k] = v set (a key added or overwritten)
Put(f, k, v) == [x \in DOMAIN f \cup {k} |-> IF x = k THEN v ELSE f[x]]

\* dict.get(k, default)
Get(f, k, default) == IF k \in DOMAIN f THEN f[k] ELSE default

\* the elements of a sequence
Range(q) == {q[i] : i \in 1..Len(q)}

---------------------------------------------------------------------------
(* str.split(".") and str.replace(".", "_") *)

HasDot(c) == \E i \in 1..Len(c) : c[i] = "."

FirstDot(c) == CHOOSE i \in 1..Len(c) : c[i] = "." /\ \A j \in 1..(i - 1) : c[j] # "."

RECURSIVE SplitDot(_)
SplitDot(c) ==
    IF ~HasDot(c) THEN <<c>>
    ELSE <<SubSeq(c, 1, FirstDot(c) - 1)>>
             \o SplitDot(SubSeq(c, FirstDot(c) + 1, Len(c)))

ReplaceDot(c) == [i \in 1..Len(c) |-> IF c[i] = "." THEN "_" ELSE c[i]]

---------------------------------------------------------------------------
(* get_nested and transform_field *)

\* the loop of get_nested: data = data.get(key, {}) for each key; .get on a
\* value that is no mapping raises AttributeError
RECURSIVE Walk(_, _)
Walk(data, keys) ==
    IF keys = <<>> THEN data
    ELSE IF data.t # "dict" THEN Raised(<<"AttributeError">>)
    ELSE Walk(Get(data.d, Head(keys), EmptyDict), Tail(keys))

\* a plausible variant: the value the walk reached is returned as it is
get_nested_raw(data, path) == Walk(data, SplitDot(path))

get_nested(data, path) ==
    LET r == Walk(data, SplitDot(path))
    IN  IF r.t = "raise" THEN r ELSE IF Truthy(r) THEN r ELSE None

\* sources of a mapping rule: a string, or a list of strings
SrcStr(p) == [k |-> "str", p |-> <<p>>]

SrcList(l) == [k |-> "list", p |-> l]

\* transform_field, one step of its control flow at a time.  Its frame r holds
\* the arguments, the loop index i, the local value (unbound until the loop
\* assigns it: reading it raises UnboundLocalError) and the outcome ret.
TfFrame(m, src) ==
    [pc |-> "call", intermediate |-> m, sources |-> src, i |-> 1,
     value |-> Raised(<<"UnboundLocalError">>), ret |-> None]

\* if isinstance(sources, str): return get_nested(intermediate, sources)
TfString(r) ==
    [r EXCEPT !.pc = "done", !.ret = get_nested(r.intermediate, r.sources.p[1])]

\* value = get_nested(intermediate, source); if value: return value
TfTry(r) ==
    LET v == get_nested(r.intermediate, r.sources.p[r.i])
    IN  IF v.t = "raise" \/ Truthy(v)
        THEN [r EXCEPT !.pc = "done", !.value = v, !.ret = v]
        ELSE [r EXCEPT !.value = v, !.i = r.i + 1]

\* return value, after the loop
TfExhausted(r) == [r EXCEPT !.pc = "done", !.ret = r.value]

---------------------------------------------------------------------------
(* The Field Resolver on bounded inputs *)

MaxPaths == 2

Absent == [t |-> "absent", s |-> <<>>, d |-> <<>>, n |-> 0]

LeafVals ==
    {None, Str(<<>>), Str(<<"v">>), Str(<<"w">>), Num(0), EmptyDict,
     Dict(One(<<"x">>, Str(<<"v">>)))}

\* a joined source record: the field a with the value c, or no field at all
RecordOf(c) == IF c.t = "absent" THEN <<>> ELSE One(<<"a">>, c)

Intermediates ==
    {Dict([k \in {<<"crosswalk">>, <<"s">>, <<"t">>} |->
              IF k = <<"crosswalk">> THEN Dict(One(<<"prism_id">>, Str(<<"p">>)))
              ELSE IF k = <<"s">> THEN Dict(RecordOf(cs))
              ELSE Dict(RecordOf(ct))]) :
        cs \in LeafVals \cup {Absent}, ct \in LeafVals \cup {Absent}}

Paths ==
    {<<"s", ".", "a">>, <<"t", ".", "a">>, <<"s", ".", "a", ".", "x">>,
     <<"u", ".", "a">>, <<"s">>}

PathLists == UNION {[1..k -> Paths] : k \in 0..MaxPaths}

SourceSpecs == {SrcStr(p) : p \in Paths} \cup {SrcList(l) : l \in PathLists}

Idle == [pc |-> "idle"]

ResolverInit ==
    /\ resolver \in {TfFrame(m, src) : m \in Intermediates, src \in SourceSpecs}
    /\ join = Idle /\ fsets = Idle /\ build = Idle /\ outp = Idle
    /\ pivot = Idle /\ records = Idle /\ pfields = Idle

ResolveString ==
    /\ resolver.pc = "call" /\ resolver.sources.k = "str"
    /\ resolver' = TfString(resolver)
    /\ UNCHANGED <<join, fsets, build, outp, pivot, records, pfields>>

ResolveEnterLoop ==
    /\ resolver.pc = "call" /\ resolver.sources.k = "list"
    /\ resolver' = [resolver EXCEPT !.pc = "loop"]
    /\ UNCHANGED <<join, fsets, build, outp, pivot, records, pfields>>

ResolveTry ==
    /\ resolver.pc = "loop" /\ resolver.i <= Len(resolver.sources.p)
    /\ resolver' = TfTry(resolver)
    /\ UNCHANGED <<join, fsets, build, outp, pivot, records, pfields>>

ResolveExhausted ==
    /\ resolver.pc = "loop" /\ resolver.i > Len(resolver.sources.p)
    /\ resolver' = TfExhausted(resolver)
    /\ UNCHANGED <<join, fsets, build, outp, pivot, records, pfields>>

ResolverNext == ResolveString \/ ResolveEnterLoop \/ ResolveTry \/ ResolveExhausted

SpecResolver == ResolverInit /\ [][ResolverNext]_vars

\* the value the walk of path p reaches in m, before get_nested's last line
RawAt(m, p) == Walk(m, SplitDot(p))

\* every key along the path is a key of the mapping reached so far
RECURSIVE Present(_, _)
Present(data, keys) ==
    \/ keys = <<>>
    \/ /\ data.t = "dict" /\ Head(keys) \in DOMAIN data.d
       /\ Present(data.d[Head(keys)], Tail(keys))

ResolvesTruthy(m, p) == RawAt(m, p).t # "raise" /\ Truthy(RawAt(m, p))

PathRaises(m, p) == RawAt(m, p).t = "raise"

ResolverPaths == resolver.sources.p

ListExhaustedFalsy ==
    /\ resolver.pc = "done" /\ resolver.sources.k = "list"
    /\ Len(ResolverPaths) >= 1
    /\ \A i \in 1..Len(ResolverPaths) :
           ~ResolvesTruthy(resolver.intermediate, ResolverPaths[i])

LastPath == ResolverPaths[Len(ResolverPaths)]

\* C1 as stated: when no path of a non-empty list resolves to a truthy value,
\* transform_field returns the raw value found at the last path (an empty
\* string stays an empty string, it is not forced to null).
C1_LastRawValue ==
    (/\ ListExhaustedFalsy
     /\ \A i \in 1..Len(ResolverPaths) :
            ~PathRaises(resolver.intermediate, ResolverPaths[i])
     /\ Present(resolver.intermediate, SplitDot(LastPath)))
        => resolver.ret = RawAt(resolver.intermediate, LastPath)

\* C1 amended: when no path of a non-empty list resolves to a truthy value,
\* transform_field returns null whatever falsy raw value the last path holds,
\* and raises when one of the paths runs through a value that is no mapping.
C1_ExhaustedIsNull ==
    ListExhaustedFalsy =>
        IF \E i \in 1..Len(ResolverPaths) :
               PathRaises(resolver.intermediate, ResolverPaths[i])
        THEN resolver.ret.t = "raise"
        ELSE resolver.ret = None

\* C1 witness: two paths, the last one holding an empty string, resolved to null
C1_Witness ==
    /\ ListExhaustedFalsy /\ Len(ResolverPaths) = 2
    /\ Present(resolver.intermediate, SplitDot(LastPath))
    /\ RawAt(resolver.intermediate, LastPath) = Str(<<>>)
    /\ resolver.ret = None

FirstTruthy ==
    CHOOSE i \in 1..Len(ResolverPaths) :
        /\ ResolvesTruthy(resolver.intermediate, ResolverPaths[i])
        /\ \A j \in 1..(i - 1) :
               ~ResolvesTruthy(resolver.intermediate, ResolverPaths[j])

\* C2 as stated: when some path resolves to a truthy value, transform_field
\* returns the value of the first such path in declared order, whatever the
\* other paths are; a single string is resolved as the one-element list.
C2_FirstTruthyWins ==
    (/\ resolver.pc = "done"
     /\ \E i \in 1..Len(ResolverPaths) :
            ResolvesTruthy(resolver.intermediate, ResolverPaths[i]))
        => resolver.ret = RawAt(resolver.intermediate, ResolverPaths[FirstTruthy])

---------------------------------------------------------------------------
(* preprocess_source and build_intermediate *)

\* a template, parsed: literal text and {{ name }} references
Lit(c) == [var |-> FALSE, c |-> c]

Var(name) == [var |-> TRUE, c |-> name]

\* Template(template).render(**data): an undefined name renders as nothing
RECURSIVE Render(_, _)
Render(template, data) ==
    IF template = <<>> THEN <<>>
    ELSE LET tok == Head(template)
         IN  (IF tok.var THEN Get(data, tok.c, Str(<<>>)).s ELSE tok.c)
                 \o Render(Tail(template), data)

\* str.strip()
RECURSIVE Strip(_)
Strip(c) ==
    IF c = <<>> THEN c
    ELSE IF Head(c) = " " THEN Strip(Tail(c))
    ELSE IF c[Len(c)] = " " THEN Strip(SubSeq(c, 1, Len(c) - 1))
    ELSE c

\* preprocess_source: data[field] = render(template).strip(), in declared order
RECURSIVE preprocess_source(_, _)
preprocess_source(data, transformations) ==
    IF transformations = <<>> THEN data
    ELSE LET transform == Head(transformations)
         IN  preprocess_source(
                 Put(data, transform.field,
                     Str(Strip(Render(transform.template, data)))),
                 Tail(transformations))

\* a reference to the record stored at a key of a source's loaded mapping
SrcRef(key) == [t |-> "ref", s |-> key, d |-> <<>>, n |-> 0]

\* the elements of a sequence of ids, first occurrences only, in order
RECURSIVE Dedup(_)
Dedup(q) ==
    IF q = <<>> THEN <<>>
    ELSE LET rest == Dedup(SubSeq(q, 1, Len(q) - 1))
             x == q[Len(q)]
         IN  IF x \in Range(rest) THEN rest ELSE Append(rest, x)

PrismId(player) == player[<<"prism_id">>].s

\* for player in crosswalk: intermediates[player["prism_id"]]["crosswalk"] = player
SeedIntermediates(crosswalk) ==
    LET ids == Dedup([i \in 1..Len(crosswalk) |-> PrismId(crosswalk[i])])
        last(id) == CHOOSE i \in 1..Len(crosswalk) :
                        /\ PrismId(crosswalk[i]) = id
                        /\ \A j \in (i + 1)..Len(crosswalk) : PrismId(crosswalk[j]) # id
    IN  [order |-> ids,
         rec |-> [id \in Range(ids) |->
                     [crosswalk |-> crosswalk[last(id)], att |-> <<>>]]]

\* the body of the inner loop of build_intermediate for one player: the lookup,
\* the preprocessing of the record found (in place, in the loaded mapping) and
\* the attachment of that same record
JoinOne(j) ==
    LET conf == j.sources[j.si]
        id == j.order[j.pi]
        field_val == Get(j.rec[id].crosswalk, conf.crosswalk_key, None)
        found == field_val.t = "str" /\ field_val.s \in DOMAIN j.data[j.si]
        player_data == IF found THEN Dict(j.data[j.si][field_val.s]) ELSE EmptyDict
        processed == preprocess_source(player_data.d, conf.preprocess)
    IN  [j EXCEPT
            !.data[j.si] = IF found /\ Truthy(player_data)
                           THEN Put(@, field_val.s, processed) ELSE @,
            !.rec[id].att = Put(@, conf.name,
                                IF found THEN SrcRef(field_val.s) ELSE EmptyDict),
            !.pi = j.pi + 1]

\* the record attached to identity id under the source of index si
Attached(j, id, si) ==
    LET a == j.rec[id].att[j.sources[si].name]
    IN  IF a.t = "ref" THEN j.data[si][a.s] ELSE <<>>

---------------------------------------------------------------------------
(* The Intermediate Builder on bounded inputs *)

MaxPlayers == 2

MaxTransforms == 2

PlayerIds == <<<<"p", "1">>, <<"p", "2">>, <<"p", "3">>, <<"p", "4">>>>

KeyVals == {Str(<<>>), Str(<<"1">>), Str(<<"2">>)}

Player(id, key) ==
    [f \in {<<"prism_id">>, <<"k">>} |-> IF f = <<"k">> THEN key ELSE Str(id)]

\* canonical identity lists: prism_id unique, or the last row repeating the first id
Crosswalks ==
    {[i \in 1..MaxPlayers |->
         Player(IF dup /\ i = MaxPlayers THEN PlayerIds[1] ELSE PlayerIds[i], keys[i])] :
        keys \in [1..MaxPlayers -> KeyVals], dup \in BOOLEAN}

AppendZ == [field |-> <<"a">>, template |-> <<Var(<<"a">>), Lit(<<"z">>)>>]

PadB == [field |-> <<"b">>, template |-> <<Lit(<<" ">>), Var(<<"a">>), Lit(<<" ">>)>>]

TransformLists == UNION {[1..k -> {AppendZ, PadB}] : k \in 0..MaxTransforms}

RecA == One(<<"a">>, Str(<<"x">>))

RecB == [f \in {<<"a">>, <<"b">>} |-> IF f = <<"a">> THEN Str(<<"y">>) ELSE Str(<<"w">>)]

\* what a provider's load() returns: records keyed by the join key, none empty
LoadedMappings ==
    {One(<<"1">>, RecA), One(<<"1">>, RecB),
     [key \in {<<"1">>, <<"2">>} |-> IF key = <<"1">> THEN RecA ELSE RecB]}

SourceS(pre) == [name |-> <<"s">>, crosswalk_key |-> <<"k">>, preprocess |-> pre]

\* a source joined on a field no identity has
SourceT == [name |-> <<"t">>, crosswalk_key |-> <<"k2">>, preprocess |-> <<AppendZ>>]

SourceConfigs ==
    {<<SourceS(pre)>> : pre \in TransformLists}
        \cup {<<SourceS(pre), SourceT>> : pre \in TransformLists}

\* the frame of build_intermediate; loads is the log of the calls of load(),
\* by source name
JoinFrame(crosswalk, sources, loaded) ==
    [pc |-> "seed", crosswalk |-> crosswalk, sources |-> sources,
     loaded |-> loaded, data |-> [i \in 1..Len(sources) |-> <<>>],
     order |-> <<>>, rec |-> <<>>, si |-> 1, pi |-> 1, loads |-> <<>>]

JoinInit ==
    /\ join \in {JoinFrame(c, srcs, [i \in 1..Len(srcs) |-> IF i = 1 THEN m ELSE One(<<"1">>, RecA)]) :
                    c \in Crosswalks, srcs \in SourceConfigs, m \in LoadedMappings}
    /\ resolver = Idle /\ fsets = Idle /\ build = Idle /\ outp = Idle
    /\ pivot = Idle /\ records = Idle /\ pfields = Idle

\* lines 36-38
JoinSeed ==
    /\ join.pc = "seed"
    /\ join' = [join EXCEPT !.pc = "load",
                            !.order = SeedIntermediates(join.crosswalk).order,
                            !.rec = SeedIntermediates(join.crosswalk).rec]
    /\ UNCHANGED <<resolver, fsets, build, outp, pivot, records, pfields>>

\* lines 39-43: the next source's load() returns its mapping
JoinLoad ==
    /\ join.pc = "load" /\ join.si <= Len(join.sources)
    /\ join' = [join EXCEPT !.pc = "players", !.pi = 1,
                            !.data[join.si] = join.loaded[join.si],
                            !.loads = Append(@, join.sources[join.si].name)]
    /\ UNCHANGED <<resolver, fsets, build, outp, pivot, records, pfields>>

\* lines 41-43: the import of the module or its load() raises
JoinLoadRaises ==
    /\ join.pc = "load" /\ join.si <= Len(join.sources)
    /\ join' = [join EXCEPT !.pc = "raised",
                            !.loads = Append(@, join.sources[join.si].name)]
    /\ UNCHANGED <<resolver, fsets, build, outp, pivot, records, pfields>>

\* lines 44-51, one player
JoinPlayer ==
    /\ join.pc = "players" /\ join.pi <= Len(join.order)
    /\ join' = JoinOne(join)
    /\ UNCHANGED <<resolver, fsets, build, outp, pivot, records, pfields>>

JoinNextSource ==
    /\ join.pc = "players" /\ join.pi > Len(join.order)
    /\ join' = [join EXCEPT !.pc = "load", !.si = join.si + 1]
    /\ UNCHANGED <<resolver, fsets, build, outp, pivot, records, pfields>>

\* line 52
JoinReturn ==
    /\ join.pc = "load" /\ join.si > Len(join.sources)
    /\ join' = [join EXCEPT !.pc = "done"]
    /\ UNCHANGED <<resolver, fsets, build, outp, pivot, records, pfields>>

JoinNext ==
    JoinSeed \/ JoinLoad \/ JoinLoadRaises \/ JoinPlayer \/ JoinNextSource \/ JoinReturn

SpecJoin == JoinInit /\ [][JoinNext]_vars

\* the record the claim expects for identity id under source si
ExpectedAttached(id, si) ==
    LET conf == join.sources[si]
        key == Get(join.rec[id].crosswalk, conf.crosswalk_key, None)
    IN  IF key.t = "str" /\ key.s \in DOMAIN join.loaded[si]
        THEN preprocess_source(join.loaded[si][key.s], conf.preprocess)
        ELSE <<>>

\* C3 as stated: after build_intermediate, every identity holds under every
\* source's name the source's loaded record at its crosswalk_key value with the
\* preprocessing transforms applied once in declared order, or an empty mapping
\* when it has no such value or the value is no key of the source.
C3_JoinedOnce ==
    join.pc = "done" =>
        \A id \in Range(join.order) : \A si \in 1..Len(join.sources) :
            Attached(join, id, si) = ExpectedAttached(id, si)

---------------------------------------------------------------------------
(* parse_fieldsets and parse_product_fields *)

\* registry["fieldsets"] is a sequence of [name, fields, fieldsets] in declared
\* order; the frame f holds the dictionary being built and the loop indices
PfFrame(input) ==
    [pc |-> "collect", input |-> input, fieldsets |-> <<>>, ni |-> 1, ri |-> 1,
     ret |-> <<>>]

\* lines 89-90: fieldsets[name] = list(fieldset.get("fields", []))
PfCollect(f) ==
    [f EXCEPT !.pc = "extend",
              !.fieldsets = [nm \in {f.input[i].name : i \in 1..Len(f.input)} |->
                               LET i == CHOOSE i \in 1..Len(f.input) : f.input[i].name = nm
                               IN  f.input[i].fields]]

PfAtRef(f) == f.ni <= Len(f.input) /\ f.ri <= Len(f.input[f.ni].fieldsets)

PfSrc(f) == f.input[f.ni].fieldsets[f.ri]

\* line 95: fieldsets[name].extend(fieldsets[src_fieldset]); an unknown
\* src_fieldset raises KeyError
PfExtend(f) ==
    IF PfSrc(f) \in DOMAIN f.fieldsets
    THEN [f EXCEPT !.fieldsets[f.input[f.ni].name] = @ \o f.fieldsets[PfSrc(f)],
                   !.ri = f.ri + 1]
    ELSE [f EXCEPT !.pc = "raised"]

\* line 93: the outer loop moves to the next fieldset
PfNextName(f) == [f EXCEPT !.ni = f.ni + 1, !.ri = 1]

\* line 98: {f: list(dict.fromkeys(v)) for f, v in fieldsets.items()}
PfReturn(f) ==
    [f EXCEPT !.pc = "done", !.ret = [nm \in DOMAIN f.fieldsets |-> Dedup(f.fieldsets[nm])]]

PfStep(f) ==
    IF f.pc = "collect" THEN PfCollect(f)
    ELSE IF PfAtRef(f) THEN PfExtend(f)
    ELSE IF f.ni <= Len(f.input) THEN PfNextName(f)
    ELSE PfReturn(f)

RECURSIVE PfRun(_)
PfRun(f) == IF f.pc \in {"done", "raised"} THEN f ELSE PfRun(PfStep(f))

\* parse_fieldsets(registry), run to its end
parse_fieldsets(input) == PfRun(PfFrame(input))

\* concatenation of the lists of a sequence of lists
RECURSIVE Flatten(_)
Flatten(ls) == IF ls = <<>> THEN <<>> ELSE Head(ls) \o Flatten(Tail(ls))

\* a plausible variant of parse_product_fields: the product's own fields first
parse_product_fields_own_first(product, fieldsets) ==
    IF product.t = "none" THEN [raised |-> FALSE, fields |-> <<>>]
    ELSE IF \E i \in 1..Len(product.fieldsets) : product.fieldsets[i] \notin DOMAIN fieldsets
    THEN [raised |-> TRUE, fields |-> <<>>]
    ELSE [raised |-> FALSE,
          fields |-> Dedup(product.fields
                           \o Flatten([i \in 1..Len(product.fieldsets) |->
                                          fieldsets[product.fieldsets[i]]]))]

\* parse_product_fields: a product is None (nothing declared under its name) or
\* [fieldsets, fields, pivots]; an unknown fieldset raises KeyError
parse_product_fields(product, fieldsets) ==
    IF product.t = "none" THEN [raised |-> FALSE, fields |-> <<>>]
    ELSE IF \E i \in 1..Len(product.fieldsets) : product.fieldsets[i] \notin DOMAIN fieldsets
    THEN [raised |-> TRUE, fields |-> <<>>]
    ELSE [raised |-> FALSE,
          fields |-> Dedup(Flatten([i \in 1..Len(product.fieldsets) |->
                                       fieldsets[product.fieldsets[i]]])
                           \o product.fields)]

---------------------------------------------------------------------------
(* The Fieldset Resolver on bounded inputs *)

MaxFieldsets == 3

FieldsetNames == <<"A", "B", "C", "D", "E">>

\* the direct fields of each fieldset
DirectFields ==
    [nm \in Range(FieldsetNames) |->
        CASE nm = "A" -> <<"x", "y">>
          [] nm = "B" -> <<"y", "z">>
          [] nm = "C" -> <<"w", "x">>
          [] nm = "D" -> <<>>
          [] OTHER -> <<"v">>]

DeclaredNames == {FieldsetNames[i] : i \in 1..MaxFieldsets}

\* references of a fieldset: none, one (possibly to a name that is not declared)
\* and, for the first declared fieldset, two declared names
RefLists(i) ==
    {<<>>} \cup {<<nm>> : nm \in DeclaredNames \cup {"Z"}}
        \cup (IF i = 1
               THEN {<<p[1], p[2]>> : p \in {q \in DeclaredNames \X DeclaredNames : q[1] # q[2]}}
               ELSE {})

FieldsetInputs ==
    {[i \in 1..MaxFieldsets |->
         [name |-> FieldsetNames[i], fields |-> DirectFields[FieldsetNames[i]],
          fieldsets |-> refs[i]]] :
        refs \in {r \in [1..MaxFieldsets -> UNION {RefLists(j) : j \in 1..MaxFieldsets}] :
                     \A j \in 1..MaxFieldsets : r[j] \in RefLists(j)}}

FsetsInit ==
    /\ fsets \in {PfFrame(input) : input \in FieldsetInputs}
    /\ resolver = Idle /\ join = Idle /\ build = Idle /\ outp = Idle
    /\ pivot = Idle /\ records = Idle /\ pfields = Idle

FsCollect ==
    /\ fsets.pc = "collect"
    /\ fsets' = PfCollect(fsets)
    /\ UNCHANGED <<resolver, join, build, outp, pivot, records, pfields>>

FsExtend ==
    /\ fsets.pc = "extend" /\ PfAtRef(fsets)
    /\ fsets' = PfExtend(fsets)
    /\ UNCHANGED <<resolver, join, build, outp, pivot, records, pfields>>

FsNextName ==
    /\ fsets.pc = "extend" /\ ~PfAtRef(fsets) /\ fsets.ni <= Len(fsets.input)
    /\ fsets' = PfNextName(fsets)
    /\ UNCHANGED <<resolver, join, build, outp, pivot, records, pfields>>

FsReturn ==
    /\ fsets.pc = "extend" /\ fsets.ni > Len(fsets.input)
    /\ fsets' = PfReturn(fsets)
    /\ UNCHANGED <<resolver, join, build, outp, pivot, records, pfields>>

FsetsNext == FsCollect \/ FsExtend \/ FsNextName \/ FsReturn

SpecFieldsets == FsetsInit /\ [][FsetsNext]_vars

FsNames == {fsets.input[i].name : i \in 1..Len(fsets.input)}

FsDecl(nm) == fsets.input[CHOOSE i \in 1..Len(fsets.input) : fsets.input[i].name = nm]

RefsKnown == \A nm \in FsNames : Range(FsDecl(nm).fieldsets) \subseteq FsNames

\* the fieldsets reached from nm by following k references or fewer, one at least
RECURSIVE ReachedIn(_, _)
ReachedIn(nm, k) ==
    IF k = 0 THEN {}
    ELSE LET direct == Range(FsDecl(nm).fieldsets) \cap FsNames
         IN  direct \cup UNION {ReachedIn(m, k - 1) : m \in direct}

Reached(nm) == ReachedIn(nm, Cardinality(FsNames))

Cyclic == \E nm \in FsNames : nm \in Reached(nm)

\* the direct fields of nm, then the expansion of each fieldset it references
RECURSIVE Expansion(_, _)
Expansion(nm, k) ==
    IF k = 0 THEN FsDecl(nm).fields
    ELSE FsDecl(nm).fields
             \o Flatten([i \in 1..Len(FsDecl(nm).fieldsets) |->
                            Expansion(FsDecl(nm).fieldsets[i], k - 1)])

\* C4 as stated: for an acyclic set of fieldsets, in whatever order they are
\* declared, parse_fieldsets returns for each name its direct fields followed
\* by the fields of every fieldset it references directly or transitively,
\* duplicates removed, first occurrences kept.
C4_FullyExpanded ==
    (fsets.pc = "done" /\ RefsKnown /\ ~Cyclic) =>
        \A nm \in FsNames :
            fsets.ret[nm] = Dedup(Expansion(nm, Cardinality(FsNames)))

\* C5 as stated: a fieldset that includes itself, directly or through the
\* fieldsets it references, is rejected with an error: parse_fieldsets never
\* returns field lists for such a configuration.
C5_CycleRejected == (RefsKnown /\ Cyclic) => fsets.pc # "done"

---------------------------------------------------------------------------
(* main: the loop over the products, and the output tree it writes *)

\* a directory or a file of the output tree is the tuple of its path below
\* output_dir: <<product>>, <<product, "csv">> for {product}.csv,
\* <<product, pivot>>, <<product, pivot, name>> for {pivot}/{name}.json

\* resolve_pivot_spec: a string names a shared pivot (KeyError when there is
\* none of that name), a mapping is the pivot, anything else raises ValueError
resolve_pivot_spec(pivot_spec, shared_pivots) ==
    CASE pivot_spec.k = "str" ->
             IF pivot_spec.name \in DOMAIN shared_pivots
             THEN [raised |-> "", pivot |-> shared_pivots[pivot_spec.name]]
             ELSE [raised |-> "KeyError", pivot |-> <<>>]
      [] pivot_spec.k = "dict" -> [raised |-> "", pivot |-> pivot_spec.pivot]
      [] OTHER -> [raised |-> "ValueError", pivot |-> <<>>]

OutputKinds == <<"csv", "json", "min.json", "ndjson">>

BuildFrame(registry, readonly) ==
    [pc |-> "start", registry |-> registry, fieldsets_all |-> <<>>,
     pi |-> 1, vi |-> 1, fi |-> 1, fields |-> <<>>,
     dirs |-> readonly, files |-> {}, readonly |-> readonly, existed |-> readonly,
     raised |-> "", cause |-> ""]

BuildName(b) == b.registry.products[b.pi].name

BuildProductDef(b) == b.registry.products[b.pi].product

\* lines 244-259: everything before the loop; parse_fieldsets may raise
MainPrepare(b) ==
    LET r == parse_fieldsets(b.registry.fieldsets)
    IN  IF r.pc = "raised"
        THEN [b EXCEPT !.pc = "raised", !.raised = "KeyError", !.cause = "fieldset"]
        ELSE [b EXCEPT !.pc = "product", !.fieldsets_all = r.ret]

\* lines 261-265: the product's fields, its directory, and the test on fields
MainProduct(b) ==
    LET r == parse_product_fields(BuildProductDef(b), b.fieldsets_all)
    IN  IF r.raised
        THEN [b EXCEPT !.pc = "raised", !.raised = "KeyError", !.cause = "product"]
        ELSE [b EXCEPT !.dirs = @ \cup {<<BuildName(b)>>},
                       !.fields = r.fields,
                       !.pc = IF r.fields # <<>> THEN "outputs" ELSE "product",
                       !.pi = IF r.fields # <<>> THEN @ ELSE @ + 1,
                       !.fi = 1, !.vi = 1]

\* lines 141-164: one of the four files of write_outputs is opened and
\* written; opening a file in a directory that cannot be written raises
MainWriteFile(b) ==
    IF <<BuildName(b)>> \in b.readonly
    THEN [b EXCEPT !.pc = "raised", !.raised = "OSError", !.cause = "output"]
    ELSE [b EXCEPT !.files = @ \cup {<<BuildName(b), OutputKinds[b.fi]>>},
                   !.fi = @ + 1,
                   !.pc = IF b.fi = Len(OutputKinds) THEN "pivots" ELSE "outputs"]

\* lines 215-223: one pivot spec of the product is resolved and its files written
MainPivot(b) ==
    LET r == resolve_pivot_spec(BuildProductDef(b).pivots[b.vi], b.registry.pivots)
        dir == <<BuildName(b), r.pivot.name>>
    IN  IF r.raised # ""
        THEN [b EXCEPT !.pc = "raised", !.raised = r.raised,
                       !.cause = IF r.raised = "ValueError" THEN "pivot_shape"
                                 ELSE "pivot_name"]
        ELSE [b EXCEPT !.dirs = @ \cup (IF r.pivot.fields = <<>> THEN {} ELSE {dir}),
                       !.files = @ \cup {Append(dir, r.pivot.fields[i].name) :
                                            i \in 1..Len(r.pivot.fields)},
                       !.vi = @ + 1]

\* line 260: the loop moves to the next product
MainNextProduct(b) == [b EXCEPT !.pc = "product", !.pi = @ + 1]

\* line 269
MainDone(b) == [b EXCEPT !.pc = "done"]

---------------------------------------------------------------------------
(* The build on bounded registries *)

MaxProducts == 2

ProductNames == <<"p1", "p2", "p3", "p4">>

MkFieldset(name, fields, refs) == [name |-> name, fields |-> fields, fieldsets |-> refs]

\* fieldsets declared in dependency order, and the same with an unknown reference
FieldsetsGood ==
    <<MkFieldset("A", <<"x", "y">>, <<>>), MkFieldset("B", <<"y", "z">>, <<"A">>),
      MkFieldset("D", <<>>, <<>>)>>

FieldsetsUnknownRef ==
    <<MkFieldset("A", <<"x", "y">>, <<"Z">>), MkFieldset("B", <<"y", "z">>, <<"A">>),
      MkFieldset("D", <<>>, <<>>)>>

PivotByTeam == [name |-> "by_team", fields |-> <<[name |-> "team"], [name |-> "pos"]>>]

SharedPivots == [nm \in {"by_team"} |-> PivotByTeam]

NoProduct == [t |-> "none", fieldsets |-> <<>>, fields |-> <<>>, pivots |-> <<>>]

Product(fieldsets, fields, pivots) ==
    [t |-> "dict", fieldsets |-> fieldsets, fields |-> fields, pivots |-> pivots]

PivotName(nm) == [k |-> "str", name |-> nm, pivot |-> <<>>]

PivotInline(pv) == [k |-> "dict", name |-> "", pivot |-> pv]

PivotOther == [k |-> "list", name |-> "", pivot |-> <<>>]

ProductOptions ==
    {NoProduct,
     Product(<<"D">>, <<>>, <<>>),
     Product(<<"A">>, <<"q">>, <<>>),
     Product(<<"Z">>, <<"q">>, <<>>),
     Product(<<"B">>, <<>>, <<PivotName("by_team")>>),
     Product(<<>>, <<"q">>, <<PivotInline([name |-> "by_pos", fields |-> <<[name |-> "pos"]>>])>>),
     Product(<<"A">>, <<>>, <<PivotOther>>),
     Product(<<"A">>, <<>>, <<PivotName("by_age")>>)}

Registries ==
    {[fieldsets |-> fs, pivots |-> SharedPivots,
      products |-> [i \in 1..MaxProducts |-> [name |-> ProductNames[i], product |-> ps[i]]]] :
        fs \in {FieldsetsGood, FieldsetsUnknownRef},
        ps \in [1..MaxProducts -> ProductOptions]}

\* product directories that exist before the build and cannot be written
ReadonlySets == SUBSET {<<ProductNames[i]>> : i \in 1..MaxProducts}

BuildInit ==
    /\ build \in {BuildFrame(reg, ro) : reg \in Registries, ro \in ReadonlySets}
    /\ resolver = Idle /\ join = Idle /\ fsets = Idle /\ outp = Idle
    /\ pivot = Idle /\ records = Idle /\ pfields = Idle

BuildPrepare ==
    /\ build.pc = "start"
    /\ build' = MainPrepare(build)
    /\ UNCHANGED <<resolver, join, fsets, outp, pivot, records, pfields>>

BuildProduct ==
    /\ build.pc = "product" /\ build.pi <= Len(build.registry.products)
    /\ build' = MainProduct(build)
    /\ UNCHANGED <<resolver, join, fsets, outp, pivot, records, pfields>>

BuildWriteFile ==
    /\ build.pc = "outputs"
    /\ build' = MainWriteFile(build)
    /\ UNCHANGED <<resolver, join, fsets, outp, pivot, records, pfields>>

BuildPivot ==
    /\ build.pc = "pivots" /\ build.vi <= Len(BuildProductDef(build).pivots)
    /\ build' = MainPivot(build)
    /\ UNCHANGED <<resolver, join, fsets, outp, pivot, records, pfields>>

BuildNextProduct ==
    /\ build.pc = "pivots" /\ build.vi > Len(BuildProductDef(build).pivots)
    /\ build' = MainNextProduct(build)
    /\ UNCHANGED <<resolver, join, fsets, outp, pivot, records, pfields>>

BuildDone ==
    /\ build.pc = "product" /\ build.pi > Len(build.registry.products)
    /\ build' = MainDone(build)
    /\ UNCHANGED <<resolver, join, fsets, outp, pivot, records, pfields>>

BuildNext ==
    BuildPrepare \/ BuildProduct \/ BuildWriteFile \/ BuildPivot
        \/ BuildNextProduct \/ BuildDone

SpecBuild == BuildInit /\ [][BuildNext]_vars

\* the fields product i resolves to, once the fieldsets are parsed
ResolvedFields(i) ==
    parse_product_fields(build.registry.products[i].product, build.fieldsets_all)

\* the directories and files of the output tree below the directory of product i
Below(i) == {e \in build.dirs \cup build.files : e[1] = ProductNames[i]}

\* C6 as stated: a product that resolves to zero fields is skipped entirely:
\* when main has finished, neither its output directory nor any file of it exists.
C6_EmptyProductSkipped ==
    build.pc = "done" =>
        \A i \in 1..Len(build.registry.products) :
            (/\ ~ResolvedFields(i).raised /\ ResolvedFields(i).fields = <<>>
             /\ <<ProductNames[i]>> \notin build.existed)
                => Below(i) = {}

\* C7 as stated: when the build aborts on an unknown fieldset reference (in a
\* fieldset or in a product) or on a pivot spec of unsupported shape, no output
\* file of any product has been written at that moment.
C7_ConfigErrorBeforeOutput ==
    (build.pc = "raised" /\ build.cause \in {"fieldset", "product", "pivot_shape"})
        => build.files = {}

\* C8 as stated: an output error in one product is fatal for that product
\* only: when the build has ended, every other product of the registry, before
\* or after the failing one, has its four output files.
C8_OutputErrorLocal ==
    (build.pc = "raised" /\ build.cause = "output") =>
        \A i \in 1..Len(build.registry.products) :
            (/\ i # build.pi
             /\ ~ResolvedFields(i).raised /\ ResolvedFields(i).fields # <<>>
             /\ <<ProductNames[i]>> \notin build.readonly)
                => {<<ProductNames[i], OutputKinds[k]>> : k \in 1..Len(OutputKinds)}
                       \subseteq build.files

---------------------------------------------------------------------------
(* nest_fields, filter_and_nest_row and write_outputs *)

\* An OutputRecord is a mapping from field names to values; a value that is a
\* mapping is held by reference, Ref(i), to the mapping heap[i], which other
\* records and the structures built from them may hold too.

\* the assignment of v at the path parts below the mapping cur, as the loop of
\* nest_fields does it: setdefault(part, {}) for each part but the last, then
\* current[last] = v.  A part that holds a shared mapping is followed into the
\* heap; a part that holds a value that is no mapping raises.
RECURSIVE SetIn(_, _, _, _)
SetIn(cur, heap, parts, v) ==
    IF Len(parts) = 1
    THEN [val |-> Dict(Put(cur.d, parts[1], v)), heap |-> heap, raised |-> ""]
    ELSE LET key == parts[1]
             child == Get(cur.d, key, EmptyDict)
         IN  CASE child.t = "dict" ->
                      LET r == SetIn(child, heap, Tail(parts), v)
                      IN  [val |-> Dict(Put(cur.d, key, r.val)), heap |-> r.heap,
                           raised |-> r.raised]
               [] child.t = "ref" ->
                      LET r == SetIn(Dict(heap[child.n]), heap, Tail(parts), v)
                      IN  [val |-> cur,
                           heap |-> [r.heap EXCEPT ![child.n] = r.val.d],
                           raised |-> r.raised]
               [] OTHER ->
                      [val |-> cur, heap |-> heap,
                       raised |-> IF Len(parts) = 2 THEN "TypeError"
                                  ELSE "AttributeError"]

\* nest_fields over the items of flat_row, a sequence of <<name, value>> in
\* insertion order
RECURSIVE NestItems(_, _, _)
NestItems(nested, heap, items) ==
    IF items = <<>> THEN [val |-> nested, heap |-> heap, raised |-> ""]
    ELSE LET r == SetIn(nested, heap, SplitDot(Head(items)[1]), Head(items)[2])
         IN  IF r.raised # "" THEN r ELSE NestItems(r.val, r.heap, Tail(items))

nest_fields(flat_row, heap) == NestItems(EmptyDict, heap, flat_row)

\* nest_fields({f: row.get(f, None) for f in fields})
filter_and_nest_row(row, fields, heap) ==
    nest_fields([i \in 1..Len(fields) |-> <<fields[i], Get(row, fields[i], None)>>], heap)

\* what json.dump writes for a value: the mappings it holds by reference are
\* written out as they are at that moment
RECURSIVE Json(_, _)
Json(v, heap) ==
    CASE v.t = "ref" -> Json(Dict(heap[v.n]), heap)
      [] v.t = "dict" -> Dict([k \in DOMAIN v.d |-> Json(v.d[k], heap)])
      [] OTHER -> v

\* what csv.writer writes for a value: nothing for None, the string itself,
\* and str(v), the text of the mapping as it is at that moment, otherwise
CsvText(v, heap) ==
    CASE v.t = "none" -> Str(<<>>)
      [] v.t = "str" -> v
      [] OTHER -> [t |-> "text", s |-> <<>>, d |-> Json(v, heap).d, n |-> 0]

\* lines 143 and 147: the header, and the dictionary handed to writerow, in
\* which a later field of the same column name replaces an earlier one
CsvHeader(fields) == [i \in 1..Len(fields) |-> ReplaceDot(fields[i])]

CsvFiltered(row, fields) ==
    [col \in Range(CsvHeader(fields)) |->
        LET j == CHOOSE j \in 1..Len(fields) :
                     /\ ReplaceDot(fields[j]) = col
                     /\ \A k \in (j + 1)..Len(fields) : ReplaceDot(fields[k]) # col
        IN  Get(row, fields[j], Str(<<>>))]

\* DictWriter.writerow: one cell for each name of the header, in its order
CsvRow(row, fields, heap) ==
    [i \in 1..Len(fields) |-> CsvText(CsvFiltered(row, fields)[CsvHeader(fields)[i]], heap)]

OutFrame(rows, heap, fields) ==
    [pc |-> "csv", rows |-> rows, heap |-> heap, fields |-> fields,
     transformed |-> [rows |-> rows, heap |-> heap],
     csv |-> <<>>, filtered_data |-> <<>>, json |-> <<>>, minjson |-> <<>>,
     ndjson |-> <<>>, raised |-> ""]

\* lines 141-148
WoCsv(o) ==
    [o EXCEPT !.pc = "nest",
              !.csv = <<CsvHeader(o.fields)>>
                          \o [i \in 1..Len(o.rows) |-> CsvRow(o.rows[i], o.fields, o.heap)]]

\* line 151, one row of filter_and_nest_rows
WoNestRow(o) ==
    LET r == filter_and_nest_row(o.rows[Len(o.filtered_data) + 1], o.fields, o.heap)
    IN  IF r.raised # ""
        THEN [o EXCEPT !.pc = "raised", !.raised = r.raised, !.heap = r.heap]
        ELSE [o EXCEPT !.filtered_data = Append(@, r.val), !.heap = r.heap]

\* lines 154-155, 158-159 and 162-164: the three JSON files
WoJson(o) ==
    [o EXCEPT !.pc = "minjson",
              !.json = [i \in 1..Len(o.filtered_data) |-> Json(o.filtered_data[i], o.heap)]]

WoMinJson(o) ==
    [o EXCEPT !.pc = "ndjson",
              !.minjson = [i \in 1..Len(o.filtered_data) |-> Json(o.filtered_data[i], o.heap)]]

WoNdjson(o) ==
    [o EXCEPT !.pc = "done",
              !.ndjson = [i \in 1..Len(o.filtered_data) |-> Json(o.filtered_data[i], o.heap)]]

---------------------------------------------------------------------------
(* The Product Projector on bounded records and field lists *)

MaxRows == 2

MaxFields == 3

FieldNames == {<<"a">>, <<"a", ".", "b">>, <<"a", "_", "b">>, <<"c">>}

\* product field lists: not empty, no name twice (parse_product_fields)
FieldLists ==
    {l \in UNION {[1..k -> FieldNames] : k \in 1..MaxFields} :
        \A i \in 1..Len(l) : \A j \in 1..Len(l) : l[i] = l[j] => i = j}

\* the mapping some records hold under a (a joined mapping, returned by
\* get_nested as it is)
SharedHeap == [i \in {1} |-> One(<<"x">>, Str(<<"v">>))]

\* an OutputRecord: a is missing, null, a string or the shared mapping; a.b is
\* a string, possibly empty; a_b is a string; c is missing
OutputRecord(id, a, ab) ==
    LET base == [f \in {<<"prism_id">>, <<"a", ".", "b">>, <<"a", "_", "b">>} |->
                    IF f = <<"prism_id">> THEN Str(id)
                    ELSE IF f = <<"a", ".", "b">> THEN ab ELSE Str(<<"u">>)]
    IN  IF a.t = "absent" THEN base ELSE Put(base, <<"a">>, a)

RecordLists ==
    {[i \in 1..MaxRows |-> OutputRecord(PlayerIds[i], as[i], abs[i])] :
        as \in [1..MaxRows -> {Absent, None, Str(<<"v">>), Ref(1)}],
        abs \in [1..MaxRows -> {Str(<<"w">>), Str(<<>>)}]}

OutInit ==
    /\ outp \in {OutFrame(rows, SharedHeap, fields) :
                    rows \in RecordLists, fields \in FieldLists}
    /\ resolver = Idle /\ join = Idle /\ fsets = Idle /\ build = Idle
    /\ pivot = Idle /\ records = Idle /\ pfields = Idle

OutCsv ==
    /\ outp.pc = "csv"
    /\ outp' = WoCsv(outp)
    /\ UNCHANGED <<resolver, join, fsets, build, pivot, records, pfields>>

OutNestRow ==
    /\ outp.pc = "nest" /\ Len(outp.filtered_data) < Len(outp.rows)
    /\ outp' = WoNestRow(outp)
    /\ UNCHANGED <<resolver, join, fsets, build, pivot, records, pfields>>

OutJson ==
    /\ outp.pc = "nest" /\ Len(outp.filtered_data) = Len(outp.rows)
    /\ outp' = WoJson(outp)
    /\ UNCHANGED <<resolver, join, fsets, build, pivot, records, pfields>>

OutMinJson ==
    /\ outp.pc = "minjson"
    /\ outp' = WoMinJson(outp)
    /\ UNCHANGED <<resolver, join, fsets, build, pivot, records, pfields>>

OutNdjson ==
    /\ outp.pc = "ndjson"
    /\ outp' = WoNdjson(outp)
    /\ UNCHANGED <<resolver, join, fsets, build, pivot, records, pfields>>

OutNext == OutCsv \/ OutNestRow \/ OutJson \/ OutMinJson \/ OutNdjson

SpecOutputs == OutInit /\ [][OutNext]_vars

\* C9 as stated: no projection mutates a shared OutputRecord: at every moment
\* every OutputRecord, with the mappings it holds as field values, is what
\* transform_records produced.
C9_RecordsUnchanged ==
    /\ outp.rows = outp.transformed.rows
    /\ outp.heap = outp.transformed.heap

\* no record holds a mapping as a field value
ScalarRecords ==
    \A i \in 1..Len(outp.rows) : \A f \in DOMAIN outp.rows[i] : outp.rows[i][f].t # "ref"

\* C10 as stated: once write_outputs has written the four files, the three
\* JSON documents hold the same records, and for each record and each field of
\* the list the CSV cell of the field's column is the value at the field's
\* nested path in the JSON record (null written as the empty cell).  Stated
\* here for records whose field values are all scalars.
C10_FormatsAgree ==
    (outp.pc = "done" /\ ScalarRecords) =>
        /\ outp.json = outp.minjson /\ outp.json = outp.ndjson
        /\ \A i \in 1..Len(outp.rows) : \A j \in 1..Len(outp.fields) :
               /\ Present(outp.json[i], SplitDot(outp.fields[j]))
               /\ outp.csv[i + 1][j]
                      = CsvText(Walk(outp.json[i], SplitDot(outp.fields[j])), outp.heap)

\* C11 as stated: each OutputRecord is projected onto exactly the fields of
\* the list: the projection never fails, every listed field is present in the
\* projected record at its nested path with the record's value (null when the
\* record lacks the field), and the projected record has no entry that comes
\* from no listed field.  Stated here for records whose field values are all
\* scalars.
C11_ProjectedExactly ==
    ScalarRecords =>
        /\ outp.raised = ""
        /\ \A i \in 1..Len(outp.filtered_data) :
               /\ \A j \in 1..Len(outp.fields) :
                      /\ Present(outp.filtered_data[i], SplitDot(outp.fields[j]))
                      /\ Walk(outp.filtered_data[i], SplitDot(outp.fields[j]))
                             = Get(outp.rows[i], outp.fields[j], None)
               /\ \A k \in DOMAIN outp.filtered_data[i].d :
                      \E j \in 1..Len(outp.fields) : SplitDot(outp.fields[j])[1] = k

---------------------------------------------------------------------------
(* write_pivot *)

\* A dict of Python keeps its keys in insertion order: it is a sequence of
\* <<key, value>> pairs with no key twice.
OdHas(od, k) == \E i \in 1..Len(od) : od[i][1] = k

OdIndex(od, k) == CHOOSE i \in 1..Len(od) : od[i][1] = k

\* od[k] of a defaultdict: the value under k, or what the factory makes
OdGet(od, k, default) == IF OdHas(od, k) THEN od[OdIndex(od, k)][2] ELSE default

\* od[k] = v: an existing key keeps its place
OdPut(od, k, v) ==
    IF OdHas(od, k) THEN [od EXCEPT ![OdIndex(od, k)] = <<k, v>>]
    ELSE Append(od, <<k, v>>)

\* lines 181-182 and 188-189: row.get(field, None), replaced by null_key when
\* it is falsy
\* (a plausible variant first: the value of the field as it is)
PvKey_no_null_key(row, field, null_key) == Get(row, field, None)

PvKey(row, field, null_key) ==
    LET row_key == Get(row, field, None)
    IN  IF Truthy(row_key) THEN row_key ELSE null_key

\* two plausible variants of the bucket update: the new record put first in
\* the list, and the first record of a key kept in single mode
BucketAdd_prepend(parent, row_key, row_data, is_array) ==
    IF is_array
    THEN OdPut(parent, row_key, <<row_data>> \o OdGet(parent, row_key, <<>>))
    ELSE OdPut(parent, row_key, row_data)

BucketAdd_keep_first(parent, row_key, row_data, is_array) ==
    IF is_array
    THEN OdPut(parent, row_key, Append(OdGet(parent, row_key, <<>>), row_data))
    ELSE IF OdHas(parent, row_key) THEN parent ELSE OdPut(parent, row_key, row_data)

\* lines 194-198: parent[row_key].append(row_data), or parent[row_key] = row_data
BucketAdd(parent, row_key, row_data, is_array) ==
    IF is_array
    THEN OdPut(parent, row_key, Append(OdGet(parent, row_key, <<>>), row_data))
    ELSE OdPut(parent, row_key, row_data)

\* the frame of write_pivot: its arguments, the loop index i, the grouping
\* outputs, the document written to the pivot's file, and the heap of the
\* mappings the rows hold by reference (none unless the caller gives one)
PvFrame(data, output_fields, pivot_field) ==
    [pc |-> "loop", data |-> data, output_fields |-> output_fields,
     pivot_field |-> pivot_field, i |-> 1, outputs |-> <<>>,
     sorted_output |-> <<>>, doc |-> <<>>, raised |-> "", heap |-> <<>>]

\* lines 180-198, one row
WpRow(p) ==
    LET row == p.data[p.i]
        pf == p.pivot_field
        row_key == PvKey(row, pf.field, pf.null_key)
        row_data == filter_and_nest_row(row, p.output_fields, p.heap)
    IN  IF ~Truthy(row_key) THEN [p EXCEPT !.i = @ + 1]
        ELSE IF Truthy(pf.subfield)
        THEN LET parent == OdGet(p.outputs, row_key, <<>>)
                 sub_key == PvKey(row, pf.subfield.s, pf.null_key)
             IN  IF row_data.raised # ""
                 THEN [p EXCEPT !.pc = "raised", !.raised = row_data.raised,
                                !.heap = row_data.heap,
                                !.outputs = OdPut(@, row_key, parent)]
                 ELSE [p EXCEPT !.i = @ + 1, !.heap = row_data.heap,
                                !.outputs = OdPut(@, row_key,
                                    BucketAdd(parent, sub_key, row_data.val, pf.is_array))]
        ELSE IF row_data.raised # ""
             THEN [p EXCEPT !.pc = "raised", !.raised = row_data.raised,
                            !.heap = row_data.heap]
             ELSE [p EXCEPT !.i = @ + 1, !.heap = row_data.heap,
                            !.outputs = BucketAdd(@, row_key, row_data.val, pf.is_array)]

\* the characters of keys, in code point order
CodePoints ==
    <<"0", "1", "2", "3", "4", "5", "6", "7", "8", "9", "A", "B", "C", "P", "U",
      "u", "v", "w", "x">>

Ord(c) == CHOOSE i \in 1..Len(CodePoints) : CodePoints[i] = c

\* a < b of two strings
RECURSIVE StrLess(_, _)
StrLess(a, b) ==
    IF b = <<>> THEN FALSE
    ELSE IF a = <<>> THEN TRUE
    ELSE IF Head(a) = Head(b) THEN StrLess(Tail(a), Tail(b))
    ELSE Ord(Head(a)) < Ord(Head(b))

\* str(k) of a key: a string is itself, an integer is its decimal digits
RECURSIVE Digits(_)
Digits(n) ==
    IF n < 10 THEN <<CodePoints[n + 1]>>
    ELSE Digits(n \div 10) \o <<CodePoints[(n % 10) + 1]>>

StrOf(k) == IF k.t = "str" THEN k.s ELSE Digits(k.n)

\* two buckets as Python compares them with ==: a list element by element, a
\* projected record as it is, an inner mapping of buckets whatever the order
\* of its keys
BucketEq(v, w, is_nested) == IF is_nested THEN Range(v) = Range(w) ELSE v = w

\* sorted() on two pairs of the same string key goes on to compare the
\* buckets with <: two lists are compared at their first differing elements,
\* which are mappings, and mappings have no <; a list that is the beginning of
\* the other one is the smaller one
TieRaises(v, w, is_list, is_nested) ==
    IF is_list
    THEN \E i \in 1..Len(v) : i <= Len(w) /\ v[i] # w[i]
    ELSE ~BucketEq(v, w, is_nested)

\* the position of a pair in the sorted list is before that of another one
SortsBefore(items, i, j, is_list) ==
    \/ StrLess(items[i][1], items[j][1])
    \/ /\ items[i][1] = items[j][1]
       /\ \/ is_list /\ Len(items[i][2]) < Len(items[j][2])
          \/ ~(is_list /\ Len(items[j][2]) < Len(items[i][2])) /\ i < j

\* the strings of a set in ascending order
RECURSIVE Ascending(_)
Ascending(S) ==
    IF S = {} THEN <<>>
    ELSE LET least == CHOOSE a \in S : \A b \in S \ {a} : StrLess(a, b)
         IN  <<least>> \o Ascending(S \ {least})

\* line 200: dict(sorted((str(k), v) for k, v in outputs.items())); in the
\* dict a string key that comes again keeps its place and takes the later value
WpSort(p) ==
    LET is_nested == Truthy(p.pivot_field.subfield)
        is_list == p.pivot_field.is_array /\ ~is_nested
        items == [i \in 1..Len(p.outputs) |-> <<StrOf(p.outputs[i][1]), p.outputs[i][2]>>]
        keys == Ascending({items[i][1] : i \in 1..Len(items)})
        last(k) == CHOOSE i \in 1..Len(items) :
                       /\ items[i][1] = k
                       /\ \A j \in 1..Len(items) :
                              (j # i /\ items[j][1] = k) => SortsBefore(items, j, i, is_list)
    IN  IF \E i \in 1..Len(items) : \E j \in 1..Len(items) :
               i # j /\ items[i][1] = items[j][1]
                     /\ TieRaises(items[i][2], items[j][2], is_list, is_nested)
        THEN [p EXCEPT !.pc = "raised", !.raised = "TypeError"]
        ELSE [p EXCEPT !.pc = "write",
                       !.sorted_output =
                           [n \in 1..Len(keys) |-> <<Str(keys[n]), items[last(keys[n])][2]>>]]

\* what json.dump writes for a bucket: the records of a list, or the record
JsonBucket(v, is_array, heap) ==
    IF is_array THEN [n \in 1..Len(v) |-> Json(v[n], heap)] ELSE Json(v, heap)

\* lines 201-202: the document, with the mappings the records hold by
\* reference written out as they are at that moment
WpWrite(p) ==
    LET pf == p.pivot_field
        written(v) ==
            IF Truthy(pf.subfield)
            THEN [k \in 1..Len(v) |-> <<v[k][1], JsonBucket(v[k][2], pf.is_array, p.heap)>>]
            ELSE JsonBucket(v, pf.is_array, p.heap)
    IN  [p EXCEPT !.pc = "done",
                  !.doc = [n \in 1..Len(p.sorted_output) |->
                              <<p.sorted_output[n][1], written(p.sorted_output[n][2])>>]]

---------------------------------------------------------------------------
(* The Pivot Builder on bounded records and pivot definitions *)

MaxPivotRows == 2

TeamField == <<"t", "e", "a", "m">>

PosField == <<"p", "o", "s">>

\* team is missing, empty, a string or an integer (a mapping rule may fall
\* back from a source that holds numbers to one that holds text); pos is
\* missing or a string
TeamVals == {Absent, Str(<<>>), Str(<<"B">>), Str(<<"9">>), Num(9), Num(10)}

PosVals == {Absent, Str(<<"P">>), Str(<<"C">>)}

PivotRecord(id, team, pos) ==
    LET base == One(<<"prism_id">>, Str(id))
        with_team == IF team.t = "absent" THEN base ELSE Put(base, TeamField, team)
    IN  IF pos.t = "absent" THEN with_team ELSE Put(with_team, PosField, pos)

PivotRecordLists ==
    {[i \in 1..MaxPivotRows |-> PivotRecord(PlayerIds[i], teams[i], poss[i])] :
        teams \in [1..MaxPivotRows -> TeamVals], poss \in [1..MaxPivotRows -> PosVals]}

\* the entries of a pivot's fields list: pivot on team, with or without the
\* subfield pos, array or single mode, with or without a null_key
PivotFields ==
    {[field |-> TeamField, subfield |-> sub, is_array |-> arr, null_key |-> nk] :
        sub \in {None, Str(PosField)}, arr \in BOOLEAN, nk \in {None, Str(<<"U">>)}}

\* the product's fields, with and without the identity
PivotOutputFields == {<<<<"prism_id">>, PosField>>, <<PosField>>}

PivotInit ==
    /\ pivot \in {PvFrame(data, fields, pf) :
                     data \in PivotRecordLists, fields \in PivotOutputFields,
                     pf \in PivotFields}
    /\ resolver = Idle /\ join = Idle /\ fsets = Idle /\ build = Idle
    /\ outp = Idle /\ records = Idle /\ pfields = Idle

PivotRow ==
    /\ pivot.pc = "loop" /\ pivot.i <= Len(pivot.data)
    /\ pivot' = WpRow(pivot)
    /\ UNCHANGED <<resolver, join, fsets, build, outp, records, pfields>>

PivotSort ==
    /\ pivot.pc = "loop" /\ pivot.i > Len(pivot.data)
    /\ pivot' = WpSort(pivot)
    /\ UNCHANGED <<resolver, join, fsets, build, outp, records, pfields>>

PivotWrite ==
    /\ pivot.pc = "write"
    /\ pivot' = WpWrite(pivot)
    /\ UNCHANGED <<resolver, join, fsets, build, outp, records, pfields>>

PivotNext == PivotRow \/ PivotSort \/ PivotWrite

SpecPivot == PivotInit /\ [][PivotNext]_vars

\* the grouping key of a record as the pivot definition describes it: the
\* value of the field, or null_key when the value is missing, null or empty
GroupKey(row, field, null_key) ==
    IF field \in DOMAIN row /\ row[field] \notin {None, Str(<<>>)} THEN row[field]
    ELSE null_key

\* the rows the loop of write_pivot has gone through
PivotSeen == 1..(pivot.i - 1)

PivotProjected(i) == filter_and_nest_row(pivot.data[i], pivot.output_fields, <<>>).val

SingleLevel == pivot.pc # "idle" /\ pivot.pivot_field.subfield = None

PivotKeyOf(i) == GroupKey(pivot.data[i], pivot.pivot_field.field, pivot.pivot_field.null_key)

\* the record is in the bucket: an element of the list, or the single record
InBucket(bucket, rec, is_array) ==
    IF is_array THEN \E n \in 1..Len(bucket) : bucket[n] = rec ELSE bucket = rec

TwoLevel == pivot.pc # "idle" /\ pivot.pivot_field.subfield # None

PivotSubKeyOf(i) ==
    GroupKey(pivot.data[i], pivot.pivot_field.subfield.s, pivot.pivot_field.null_key)

\* C13 as stated: in a two-level pivot the records are grouped by the primary
\* field's key and, inside, by the subfield's key, and a key that is still
\* empty after the null_key substitution is handled at the inner level as at
\* the outer level: the record is left out, so no bucket has an empty key and
\* every record with both keys is in the inner bucket of its two keys.
C13_TwoLevelSameHandling ==
    TwoLevel =>
        /\ \A n \in 1..Len(pivot.outputs) :
               /\ pivot.outputs[n][1] # None
               /\ \A k \in 1..Len(pivot.outputs[n][2]) : pivot.outputs[n][2][k][1] # None
        /\ \A i \in PivotSeen :
               (/\ PivotKeyOf(i) # None /\ PivotSubKeyOf(i) # None
                /\ pivot.pivot_field.is_array)
                   => InBucket(OdGet(OdGet(pivot.outputs, PivotKeyOf(i), <<>>),
                                     PivotSubKeyOf(i), <<>>),
                               PivotProjected(i), TRUE)

\* the projected records of the rows gone through whose keys are k (and sub
\* in a two-level pivot), in the order of the rows
RECURSIVE Matching(_, _, _)
Matching(n, k, sub) ==
    IF n = 0 THEN <<>>
    ELSE IF /\ PivotKeyOf(n) = k
            /\ pivot.pivot_field.subfield # None => PivotSubKeyOf(n) = sub
         THEN Append(Matching(n - 1, k, sub), PivotProjected(n))
         ELSE Matching(n - 1, k, sub)

\* the buckets of the grouping as <<key, inner key, bucket>>, the inner key
\* null in a single-level pivot
PivotBuckets ==
    IF pivot.pivot_field.subfield = None
    THEN {<<pivot.outputs[n][1], None, pivot.outputs[n][2]>> : n \in 1..Len(pivot.outputs)}
    ELSE UNION {{<<pivot.outputs[n][1], pivot.outputs[n][2][k][1], pivot.outputs[n][2][k][2]>> :
                    k \in 1..Len(pivot.outputs[n][2])} : n \in 1..Len(pivot.outputs)}

\* the buckets of the document written, in the same form
DocBuckets ==
    IF pivot.pivot_field.subfield = None
    THEN {<<pivot.doc[n][1], None, pivot.doc[n][2]>> : n \in 1..Len(pivot.doc)}
    ELSE UNION {{<<pivot.doc[n][1], pivot.doc[n][2][k][1], pivot.doc[n][2][k][2]>> :
                    k \in 1..Len(pivot.doc[n][2])} : n \in 1..Len(pivot.doc)}

ArrayMode == pivot.pc # "idle" /\ pivot.pivot_field.is_array

\* C14: in array mode every bucket of the grouping is the list of the
\* projected records of exactly the records gone through whose grouping key is
\* the bucket's key, in input order, each once; and every bucket of the
\* document written is such a list for a key of the bucket's string form.
C14_ArrayBuckets ==
    ArrayMode =>
        /\ \A b \in PivotBuckets : b[3] = Matching(pivot.i - 1, b[1], b[2])
        /\ pivot.pc = "done" =>
               \A b \in DocBuckets :
                   \E i \in PivotSeen :
                       /\ PivotKeyOf(i) # None /\ Str(StrOf(PivotKeyOf(i))) = b[1]
                       /\ b[3] = Matching(pivot.i - 1, PivotKeyOf(i), b[2])

\* C14 witness: an array-mode pivot is written in which two records of the
\* same team are the bucket of that team, in input order
C14_Witness ==
    /\ ArrayMode /\ SingleLevel /\ pivot.pc = "done"
    /\ pivot.output_fields = <<<<"prism_id">>, PosField>>
    /\ PivotKeyOf(1) = Str(<<"B">>) /\ PivotKeyOf(2) = Str(<<"B">>)
    /\ pivot.doc = <<<<Str(<<"B">>), <<PivotProjected(1), PivotProjected(2)>>>>>>

SingleMode == pivot.pc # "idle" /\ ~pivot.pivot_field.is_array

\* the last row gone through whose keys are k (and sub in a two-level pivot)
LastMatching(k, sub) ==
    CHOOSE i \in PivotSeen :
        /\ Matching(i, k, sub) # Matching(i - 1, k, sub)
        /\ \A j \in PivotSeen : j > i => Matching(j, k, sub) = Matching(j - 1, k, sub)

\* C15: in single mode every bucket of the grouping holds one record, the
\* projected record of the last record gone through that has the bucket's
\* key, and the loop never fails on a key that comes again; every bucket of
\* the document written is such a record for a key of the bucket's string form.
C15_SingleLastWins ==
    SingleMode =>
        /\ pivot.pc = "loop" => pivot.raised = ""
        /\ \A b \in PivotBuckets :
               /\ Matching(pivot.i - 1, b[1], b[2]) # <<>>
               /\ b[3] = PivotProjected(LastMatching(b[1], b[2]))
        /\ pivot.pc = "done" =>
               \A b \in DocBuckets :
                   \E i \in PivotSeen :
                       /\ PivotKeyOf(i) # None /\ Str(StrOf(PivotKeyOf(i))) = b[1]
                       /\ Matching(pivot.i - 1, PivotKeyOf(i), b[2]) # <<>>
                       /\ b[3] = PivotProjected(LastMatching(PivotKeyOf(i), b[2]))

\* C15 witness: a single-mode pivot is written in which two records have the
\* same team and the bucket of the team is the second one
C15_Witness ==
    /\ SingleMode /\ SingleLevel /\ pivot.pc = "done"
    /\ pivot.output_fields = <<<<"prism_id">>, PosField>>
    /\ PivotKeyOf(1) = Str(<<"B">>) /\ PivotKeyOf(2) = Str(<<"B">>)
    /\ pivot.doc = <<<<Str(<<"B">>), PivotProjected(2)>>>>

\* C16 as stated: every pivot is persisted; the document lists its top-level
\* keys in ascending lexicographic order of their string form, and it has one
\* top-level entry, holding the bucket as the grouping built it, for every
\* distinct grouping key that received a record.
C16_SortedComplete ==
    /\ pivot.pc # "idle" => pivot.raised = ""
    /\ pivot.pc = "done" =>
           /\ \A n \in 1..(Len(pivot.doc) - 1) :
                  StrLess(pivot.doc[n][1].s, pivot.doc[n + 1][1].s)
           /\ Len(pivot.doc) = Len(pivot.outputs)
           /\ \A n \in 1..Len(pivot.outputs) :
                  /\ OdHas(pivot.doc, Str(StrOf(pivot.outputs[n][1])))
                  /\ OdGet(pivot.doc, Str(StrOf(pivot.outputs[n][1])), <<>>)
                         = pivot.outputs[n][2]

---------------------------------------------------------------------------
(* parse_product_fields on bounded products and expanded fieldsets *)

MaxProductRefs == 2

MaxOwnFields == 2

\* expanded fieldsets as parse_fieldsets returns them: no field twice in a list
ExpandedLists == {<<>>, <<"x", "y">>, <<"y", "z">>, <<"z", "x">>}

ExpandedFieldsets == [{"A", "B"} -> ExpandedLists]

\* the product's fieldsets (Z is no fieldset) and its own fields, which may
\* repeat a field
ProductRefLists == UNION {[1..k -> {"A", "B", "Z"}] : k \in 0..MaxProductRefs}

OwnFieldLists == UNION {[1..k -> {"x", "z", "q"}] : k \in 0..MaxOwnFields}

ProductDefs ==
    {NoProduct} \cup {Product(refs, own, <<>>) : refs \in ProductRefLists, own \in OwnFieldLists}

ProductFieldsInit ==
    /\ pfields \in {[pc |-> "call", product |-> pd, fieldsets |-> fs,
                     raised |-> FALSE, ret |-> <<>>] :
                       pd \in ProductDefs, fs \in ExpandedFieldsets}
    /\ resolver = Idle /\ join = Idle /\ fsets = Idle /\ build = Idle
    /\ outp = Idle /\ pivot = Idle /\ records = Idle

ProductFieldsCall ==
    /\ pfields.pc = "call"
    /\ LET r == parse_product_fields(pfields.product, pfields.fieldsets)
       IN  pfields' = [pfields EXCEPT !.pc = IF r.raised THEN "raised" ELSE "done",
                                      !.raised = r.raised, !.ret = r.fields]
    /\ UNCHANGED <<resolver, join, fsets, build, outp, pivot, records>>

ProductFieldsNext == ProductFieldsCall

SpecProductFields == ProductFieldsInit /\ [][ProductFieldsNext]_vars

\* the fields of the referenced fieldsets in declared order, then the
\* product's own fields
RECURSIVE RefFields(_, _)
RefFields(refs, fieldsets) ==
    IF refs = <<>> THEN <<>>
    ELSE fieldsets[Head(refs)] \o RefFields(Tail(refs), fieldsets)

ProductConcat == RefFields(pfields.product.fieldsets, pfields.fieldsets) \o pfields.product.fields

FirstAt(q, e) == CHOOSE i \in 1..Len(q) : q[i] = e /\ \A j \in 1..(i - 1) : q[j] # e

\* C17: parse_product_fields returns the fields of the concatenation, each
\* once, in the order of their first occurrences in it.
C17_ConcatDedup ==
    pfields.pc = "done" =>
        /\ Range(pfields.ret) = Range(ProductConcat)
        /\ \A i \in 1..Len(pfields.ret) : \A j \in 1..Len(pfields.ret) :
               i < j => /\ pfields.ret[i] # pfields.ret[j]
                        /\ FirstAt(ProductConcat, pfields.ret[i])
                               < FirstAt(ProductConcat, pfields.ret[j])

\* C17 witness: fieldsets A = [x, y] and B = [y, z] and the own field x give
\* [x, y, z]
C17_Witness ==
    /\ pfields.pc = "done"
    /\ pfields.product.t = "dict" /\ pfields.product.fieldsets = <<"A", "B">>
    /\ pfields.fieldsets["A"] = <<"x", "y">> /\ pfields.fieldsets["B"] = <<"y", "z">>
    /\ pfields.product.fields = <<"x">>
    /\ pfields.ret = <<"x", "y", "z">>

---------------------------------------------------------------------------
(* transform_record and transform_records *)

\* transform_field as a whole: its steps, run until it returns or raises
TfStep(r) ==
    CASE r.pc = "call" /\ r.sources.k = "str" -> TfString(r)
      [] r.pc = "call" /\ r.sources.k # "str" -> [r EXCEPT !.pc = "loop"]
      [] r.pc = "loop" /\ r.i <= Len(r.sources.p) -> TfTry(r)
      [] OTHER -> TfExhausted(r)

RECURSIVE TfRun(_)
TfRun(r) == IF r.pc = "done" THEN r.ret ELSE TfRun(TfStep(r))

transform_field(intermediate, sources) == TfRun(TfFrame(intermediate, sources))

\* line 72: {m["dest"]: transform_field(intermediate, m["src"]) for m in
\* mapping}, a later rule of the same dest replacing an earlier one; a
\* transform_field that raises ends it
RECURSIVE ApplyRules(_, _, _)
ApplyRules(result, intermediate, mapping) ==
    IF mapping = <<>> THEN [raised |-> "", ret |-> result]
    ELSE LET v == transform_field(intermediate, Head(mapping).src)
         IN  IF v.t = "raise" THEN [raised |-> v.s[1], ret |-> result]
             ELSE ApplyRules(Put(result, Head(mapping).dest, v), intermediate,
                             Tail(mapping))

transform_record(intermediate, mapping) == ApplyRules(<<>>, intermediate, mapping)

\* dict.update
Update(f, g) ==
    [k \in DOMAIN f \cup DOMAIN g |-> IF k \in DOMAIN g THEN g[k] ELSE f[k]]

\* the frame of main lines 250 and 256: the crosswalk, the source records
\* joined to each prism_id, the mapping rules, the intermediates in the order
\* of their insertion, and the outputs of transform_records
RecFrame(crosswalk, joined, mapping) ==
    [pc |-> "seed", crosswalk |-> crosswalk, joined |-> joined, mapping |-> mapping,
     intermediates |-> <<>>, outputs |-> <<>>, raised |-> ""]

\* lines 36-52: one intermediate for each prism_id, in the order of the first
\* rows of the ids, holding the last row of the id and the joined records
RecSeed(r) ==
    LET seeded == SeedIntermediates(r.crosswalk)
    IN  [r EXCEPT !.pc = "transform",
                  !.intermediates =
                      [n \in 1..Len(seeded.order) |->
                          Dict([k \in {<<"crosswalk">>, <<"s">>, <<"t">>} |->
                                   IF k = <<"crosswalk">>
                                   THEN Dict(seeded.rec[seeded.order[n]].crosswalk)
                                   ELSE Dict(r.joined[seeded.order[n]][k])])]]

\* lines 77-80, one intermediate
RecTransform(r) ==
    LET intermediate == r.intermediates[Len(r.outputs) + 1]
        output == intermediate.d[<<"crosswalk">>].d
        t == transform_record(intermediate, r.mapping)
    IN  IF t.raised # "" THEN [r EXCEPT !.pc = "raised", !.raised = t.raised]
        ELSE [r EXCEPT !.outputs = Append(@, Update(output, t.ret))]

\* line 81
RecReturn(r) == [r EXCEPT !.pc = "done"]

---------------------------------------------------------------------------
(* The Record Transformer on bounded crosswalks and mapping rules *)

MaxMappings == 2

\* canonical identity lists of MaxPlayers rows: prism_id unique, or the last
\* row repeating the first id
RecCrosswalks ==
    {[i \in 1..MaxPlayers |->
         Player(IF dup /\ i = MaxPlayers THEN PlayerIds[1] ELSE PlayerIds[i],
                Str(<<"1">>))] : dup \in BOOLEAN}

\* the records joined to a prism_id under the sources s and t
JoinedRecords ==
    {[k \in {<<"s">>, <<"t">>} |-> IF k = <<"s">> THEN RecordOf(cs) ELSE RecordOf(ct)] :
        cs \in {Absent, None, Str(<<"v">>), Dict(One(<<"x">>, Str(<<"v">>)))},
        ct \in {Absent, Str(<<"w">>)}}

\* mapping rules: dest n from s.a, from s.a then t.a, from s.a.x; and dest k,
\* which is a crosswalk field too, from t.a
MappingRules ==
    {[dest |-> <<"n">>, src |-> SrcStr(<<"s", ".", "a">>)],
     [dest |-> <<"n">>, src |-> SrcList(<<<<"s", ".", "a">>, <<"t", ".", "a">>>>)],
     [dest |-> <<"n">>, src |-> SrcStr(<<"s", ".", "a", ".", "x">>)],
     [dest |-> <<"k">>, src |-> SrcStr(<<"t", ".", "a">>)]}

MappingLists == UNION {[1..k -> MappingRules] : k \in 0..MaxMappings}

RecordsInit ==
    /\ records \in {RecFrame(cw, joined, mapping) :
                       cw \in RecCrosswalks,
                       joined \in [{PlayerIds[i] : i \in 1..MaxPlayers} -> JoinedRecords],
                       mapping \in MappingLists}
    /\ resolver = Idle /\ join = Idle /\ fsets = Idle /\ build = Idle
    /\ outp = Idle /\ pivot = Idle /\ pfields = Idle

RecordsSeed ==
    /\ records.pc = "seed"
    /\ records' = RecSeed(records)
    /\ UNCHANGED <<resolver, join, fsets, build, outp, pivot, pfields>>

RecordsTransform ==
    /\ records.pc = "transform" /\ Len(records.outputs) < Len(records.intermediates)
    /\ records' = RecTransform(records)
    /\ UNCHANGED <<resolver, join, fsets, build, outp, pivot, pfields>>

RecordsReturn ==
    /\ records.pc = "transform" /\ Len(records.outputs) = Len(records.intermediates)
    /\ records' = RecReturn(records)
    /\ UNCHANGED <<resolver, join, fsets, build, outp, pivot, pfields>>

RecordsNext == RecordsSeed \/ RecordsTransform \/ RecordsReturn

SpecRecords == RecordsInit /\ [][RecordsNext]_vars

RecUniqueIds ==
    \A i \in 1..Len(records.crosswalk) : \A j \in 1..Len(records.crosswalk) :
        PrismId(records.crosswalk[i]) = PrismId(records.crosswalk[j]) => i = j

\* the Intermediate of the identity of row i
IntermediateOf(i) ==
    Dict([k \in {<<"crosswalk">>, <<"s">>, <<"t">>} |->
             IF k = <<"crosswalk">> THEN Dict(records.crosswalk[i])
             ELSE Dict(records.joined[PrismId(records.crosswalk[i])][k])])

\* the last rule of the mapping with the dest d
LastRule(d) ==
    records.mapping[CHOOSE n \in 1..Len(records.mapping) :
                        /\ records.mapping[n].dest = d
                        /\ \A m \in (n + 1)..Len(records.mapping) :
                               records.mapping[m].dest # d]

\* the crosswalk fields of row i merged with the Field Resolver result of
\* every rule under the rule's dest
ExpectedRecord(i) ==
    LET dests == {records.mapping[n].dest : n \in 1..Len(records.mapping)}
    IN  [k \in DOMAIN records.crosswalk[i] \cup dests |->
            IF k \in dests THEN transform_field(IntermediateOf(i), LastRule(k).src)
            ELSE records.crosswalk[i][k]]

\* C18 as stated: for a canonical identity list with unique prism_id values
\* transform_records returns, and what it returns is one OutputRecord for
\* each identity, in the order of the list, each the identity's crosswalk
\* fields merged with the Field Resolver results under the rules' dest names.
C18_OneRecordPerIdentity ==
    (records.pc # "idle" /\ RecUniqueIds) =>
        /\ records.raised = ""
        /\ \A n \in 1..Len(records.outputs) : records.outputs[n] = ExpectedRecord(n)
        /\ records.pc = "done" => Len(records.outputs) = Len(records.crosswalk)

\* C19 as stated, on transform_field called with one path (which returns what
\* get_nested returns): resolving the path is never an error, and when a key
\* along the path is missing from the structure reached so far the result is
\* null.
C19_NeverAnError ==
    (resolver.pc = "done" /\ resolver.sources.k = "str") =>
        /\ resolver.ret.t # "raise"
        /\ ~Present(resolver.intermediate, SplitDot(ResolverPaths[1]))
               => resolver.ret = None

---------------------------------------------------------------------------
(* main as a whole: build_intermediate, transform_records, then the products *)

\* the registry is loaded at line 249, before build_intermediate; the product
\* part of main waits for lines 250-256
MainFrame(registry, readonly) == [BuildFrame(registry, readonly) EXCEPT !.pc = "wait"]

MainSources == {<<SourceS(<<>>)>>, <<SourceS(<<AppendZ>>), SourceT>>}

MainRegistries ==
    {[fieldsets |-> FieldsetsGood, pivots |-> SharedPivots,
      products |-> [i \in 1..MaxProducts |-> [name |-> ProductNames[i], product |-> ps[i]]]] :
        ps \in [1..MaxProducts ->
                   {NoProduct, Product(<<"A">>, <<"q">>, <<>>),
                    Product(<<"B">>, <<>>, <<PivotName("by_team")>>)}]}

MainInit ==
    /\ join \in {JoinFrame(c, srcs, [i \in 1..Len(srcs) |-> One(<<"1">>, RecA)]) :
                    c \in Crosswalks, srcs \in MainSources}
    /\ build \in {MainFrame(reg, {}) : reg \in MainRegistries}
    /\ resolver = Idle /\ fsets = Idle /\ outp = Idle
    /\ pivot = Idle /\ records = Idle /\ pfields = Idle

\* a variant in which the products do not wait for build_intermediate
MainTransformed_early ==
    /\ join.pc \in {"load", "players", "done"} /\ build.pc = "wait"
    /\ build' = [build EXCEPT !.pc = "start"]
    /\ UNCHANGED <<resolver, join, fsets, outp, pivot, records, pfields>>

\* lines 250-256: build_intermediate has returned and transform_records
\* returns; neither writes a product output
MainTransformed ==
    /\ join.pc = "done" /\ build.pc = "wait"
    /\ build' = [build EXCEPT !.pc = "start"]
    /\ UNCHANGED <<resolver, join, fsets, outp, pivot, records, pfields>>

\* line 256: transform_records raises (a rule's path runs through a value
\* that is no mapping), and main with it
MainTransformRaises ==
    /\ join.pc = "done" /\ build.pc = "wait"
    /\ build' = [build EXCEPT !.pc = "raised", !.raised = "AttributeError",
                              !.cause = "transform"]
    /\ UNCHANGED <<resolver, join, fsets, outp, pivot, records, pfields>>

MainNext == JoinNext \/ MainTransformed \/ MainTransformRaises \/ BuildNext

SpecMain == MainInit /\ [][MainNext]_vars

SourceNames == [i \in 1..Len(join.sources) |-> join.sources[i].name]

\* a product output exists: a file, or a directory that was not there
ProductOutputWritten == build.files # {} \/ build.dirs # build.existed

\* C20: at every moment of a build the calls of load() so far are the first
\* sources of the configuration, in its order, each once, whatever the number
\* of identities; when build_intermediate has returned every source has been
\* loaded; a product output is written only after that; and after a load
\* that raised the product part of main never starts.
C20_LoadsOnceBeforeOutputs ==
    join.pc # "idle" =>
        /\ Len(join.loads) <= Len(SourceNames)
        /\ join.loads = SubSeq(SourceNames, 1, Len(join.loads))
        /\ join.pc = "done" => join.loads = SourceNames
        /\ (build.pc # "idle" /\ ProductOutputWritten) =>
               join.pc = "done" /\ join.loads = SourceNames
        /\ (build.pc # "idle" /\ join.pc = "raised") =>
               build.pc = "wait" /\ ~ProductOutputWritten

\* C20 witness: two sources were loaded, in configuration order, for two
\* identities, and a product's files are written
C20_Witness ==
    /\ join.pc = "done" /\ Len(join.order) = 2
    /\ join.loads = <<<<"s">>, <<"t">>>>
    /\ build.pc = "done" /\ build.files # {}

---------------------------------------------------------------------------
(* write_outputs, then write_pivots, on the same records (main lines 266-267) *)

\* a product's pivots group by a.b, which is empty in some records, or by a_b
ProductPivotFields ==
    {[field |-> f, subfield |-> None, is_array |-> arr, null_key |-> None] :
        f \in {<<"a", ".", "b">>, <<"a", "_", "b">>}, arr \in BOOLEAN}

ProductPivotInit ==
    /\ \E rows \in RecordLists : \E fields \in FieldLists : \E pf \in ProductPivotFields :
           /\ outp = OutFrame(rows, SharedHeap, fields)
           /\ pivot = [PvFrame(rows, fields, pf) EXCEPT !.pc = "wait"]
    /\ resolver = Idle /\ join = Idle /\ fsets = Idle /\ build = Idle
    /\ records = Idle /\ pfields = Idle

\* line 267 and lines 215-223: write_outputs has returned and write_pivot is
\* called with the same records, whose shared mappings are as write_outputs
\* left them
ProductPivotCall ==
    /\ outp.pc = "done" /\ pivot.pc = "wait"
    /\ pivot' = [pivot EXCEPT !.pc = "loop", !.heap = outp.heap]
    /\ UNCHANGED <<resolver, join, fsets, build, outp, records, pfields>>

ProductPivotNext == OutNext \/ ProductPivotCall \/ PivotNext

SpecProductPivot == ProductPivotInit /\ [][ProductPivotNext]_vars

\* the records of the product's JSON output for the rows whose grouping key
\* is k, in the order of the rows
RECURSIVE JsonMatching(_, _)
JsonMatching(n, k) ==
    IF n = 0 THEN <<>>
    ELSE IF PivotKeyOf(n) = k THEN Append(JsonMatching(n - 1, k), outp.json[n])
    ELSE JsonMatching(n - 1, k)

\* C21 as stated: when a pivot of a product is written, the bucket of every
\* grouping key, the keys read from the unprojected OutputRecords, holds the
\* records of those OutputRecords as they are in the product's JSON output
\* (all of them in input order in array mode, the last one in single mode),
\* and a pivot field that is not in the product's field list is in no bucket
\* record.
C21_BucketRecordsAsInJson ==
    (pivot.pc = "done" /\ outp.pc = "done") =>
        /\ {pivot.doc[n][1] : n \in 1..Len(pivot.doc)}
               = {PivotKeyOf(i) : i \in 1..Len(pivot.data)} \ {None}
        /\ \A n \in 1..Len(pivot.doc) :
               LET recs == JsonMatching(Len(pivot.data), pivot.doc[n][1])
                   bucket == IF pivot.pivot_field.is_array THEN pivot.doc[n][2]
                             ELSE <<pivot.doc[n][2]>>
               IN  /\ IF pivot.pivot_field.is_array THEN bucket = recs
                      ELSE bucket = <<recs[Len(recs)]>>
                   /\ pivot.pivot_field.field \notin Range(pivot.output_fields)
                          => \A m \in 1..Len(bucket) :
                                 ~Present(bucket[m], SplitDot(pivot.pivot_field.field))

====
